---- MODULE Spec2Model ----
(***************************************************************************)
(* A model of the jordtris game core: the board and collision test, the    *)
(* shape/rotation tables with their wall kicks, the piece queue, and the   *)
(* state transitions of src/src/game_state.rs as driven by the update      *)
(* loop of src/src/main.rs.                                                *)
(*                                                                         *)
(* The operations of GameState are operators over a record holding the     *)
(* fields of the struct; the actions of the specification apply them the   *)
(* way update() and game_over_update() call them.                          *)
(***************************************************************************)
EXTENDS Integers, Sequences, FiniteSets, TLC

VARIABLES board, player_pos, current_shape, rotation, score, held,
          shape_queue, just_held, game_phase, last_fall, last_input,
          new_queue, bag_x, clear_y, pc, steps, last

core == <<board, player_pos, current_shape, rotation, score, held,
          shape_queue, just_held, game_phase>>

\* The two instants of GameState, counted in clock units from the present
\* instant: 0 is now, -n is n units ago
timers == <<last_fall, last_input>>

\* The array and the loop index of a running call of create_new_7_bag
bagvars == <<new_queue, bag_x>>

\* The local variables of the calls that are followed step by step: those
\* of create_new_7_bag, and the row y the loop of clear_lines is at
locals == <<new_queue, bag_x, clear_y>>

vars == <<board, player_pos, current_shape, rotation, score, held,
          shape_queue, just_held, game_phase, last_fall, last_input,
          new_queue, bag_x, clear_y, pc, steps, last>>

----------------------------------------------------------------------------
(* Program constants *)

\* board: [[ShapeColor; 10]; 22]
BoardWidth == 10

BoardHeight == 22

\* the 4x4 local frame of a shape
MaskSize == 4

\* self.score += 100
LineScore == 100

\* if self.shape_queue.len() < 7
BagSize == 7

\* Duration::from_millis(500), in clock units of 250 ms
fall_interval == 2

lock_interval == 2

----------------------------------------------------------------------------
(* Bounds of the model *)

\* operations explored after each starting state
MaxSteps == 3

\* how many of the listed bags the random generator may produce
NumBags == 2

\* how far outside the board the anchors given to can_place reach
AnchorPad == 3

\* how many samples of the rows around the full one clear_lines is given
ClearPatterns == 4

----------------------------------------------------------------------------
(* shapes.rs: the catalog *)

Shapes == {"I", "J", "L", "O", "Z", "T", "S"}

Rotations == {"R0", "R90", "R180", "R270"}

Colors == {"Cyan", "Blue", "Orange", "Yellow", "Green", "Purple", "Red", "None"}

Directions == {"Left", "Right", "Up", "Down"}

\* Option<Shape>::None
NoShape == "NoShape"

Coord(cx, cy) == [x |-> cx, y |-> cy]

rotate_cw(rot) ==
    CASE rot = "R0" -> "R90"
      [] rot = "R90" -> "R180"
      [] rot = "R180" -> "R270"
      [] rot = "R270" -> "R0"

rotate_ccw(rot) ==
    CASE rot = "R0" -> "R270"
      [] rot = "R90" -> "R0"
      [] rot = "R180" -> "R90"
      [] rot = "R270" -> "R180"

is_block(color) == color # "None"

get_color(shape) ==
    CASE shape = "I" -> "Cyan"
      [] shape = "J" -> "Blue"
      [] shape = "L" -> "Orange"
      [] shape = "O" -> "Yellow"
      [] shape = "Z" -> "Green"
      [] shape = "T" -> "Purple"
      [] shape = "S" -> "Red"

get_spawn_offsets(shape) ==
    CASE shape = "I" -> Coord(3, 1)
      [] shape = "O" -> Coord(3, 1)
      [] shape \in {"J", "L", "Z", "T", "S"} -> Coord(3, 2)

\* Direction::to_value
to_value(dir) ==
    CASE dir = "Left" -> -1
      [] dir = "Right" -> 1
      [] dir = "Up" -> -1
      [] dir = "Down" -> 1

\* The kick table shared by J, L, S, T and Z
kick_jlstz(from, to) ==
    CASE from = "R0" /\ to = "R90" -> << <<0,0>>, <<-1,0>>, <<-1,1>>, <<0,-2>>, <<-1,-2>> >>
      [] from = "R90" /\ to = "R0" -> << <<0,0>>, <<1,0>>, <<1,-1>>, <<0,2>>, <<1,2>> >>
      [] from = "R90" /\ to = "R180" -> << <<0,0>>, <<1,0>>, <<1,-1>>, <<0,2>>, <<1,2>> >>
      [] from = "R180" /\ to = "R90" -> << <<0,0>>, <<-1,0>>, <<-1,1>>, <<0,-2>>, <<-1,-2>> >>
      [] from = "R180" /\ to = "R270" -> << <<0,0>>, <<1,0>>, <<1,1>>, <<0,-2>>, <<1,-2>> >>
      [] from = "R270" /\ to = "R180" -> << <<0,0>>, <<-1,0>>, <<-1,-1>>, <<0,2>>, <<-1,2>> >>
      [] from = "R270" /\ to = "R0" -> << <<0,0>>, <<-1,0>>, <<-1,-1>>, <<0,2>>, <<-1,2>> >>
      [] from = "R0" /\ to = "R270" -> << <<0,0>>, <<1,0>>, <<1,1>>, <<0,-2>>, <<1,-2>> >>

\* The kick table of I
kick_i(from, to) ==
    CASE from = "R0" /\ to = "R90" -> << <<0,0>>, <<-2,0>>, <<1,0>>, <<-2,-1>>, <<1,2>> >>
      [] from = "R90" /\ to = "R0" -> << <<0,0>>, <<2,0>>, <<-1,0>>, <<2,1>>, <<-1,-2>> >>
      [] from = "R90" /\ to = "R180" -> << <<0,0>>, <<-1,0>>, <<2,0>>, <<-1,2>>, <<2,-1>> >>
      [] from = "R180" /\ to = "R90" -> << <<0,0>>, <<1,0>>, <<-2,1>>, <<1,-2>>, <<-2,1>> >>
      [] from = "R180" /\ to = "R270" -> << <<0,0>>, <<2,0>>, <<-1,0>>, <<2,1>>, <<-1,-2>> >>
      [] from = "R270" /\ to = "R180" -> << <<0,0>>, <<-2,0>>, <<1,0>>, <<-2,-1>>, <<1,2>> >>
      [] from = "R270" /\ to = "R0" -> << <<0,0>>, <<1,0>>, <<-2,0>>, <<1,-2>>, <<-2,1>> >>
      [] from = "R0" /\ to = "R270" -> << <<0,0>>, <<-1,0>>, <<2,0>>, <<-1,2>>, <<2,-1>> >>

\* get_kick_data with a table for O that tries a shifted placement first
get_kick_data_o_shifted(shape, from, to) ==
    CASE shape \in {"J", "L", "S", "T", "Z"} -> kick_jlstz(from, to)
      [] shape = "O" -> << <<-1,0>>, <<0,0>>, <<0,0>>, <<0,0>>, <<0,0>> >>
      [] shape = "I" -> kick_i(from, to)

get_kick_data(shape, from, to) ==
    CASE shape \in {"J", "L", "S", "T", "Z"} -> kick_jlstz(from, to)
      [] shape = "O" -> << <<0,0>>, <<0,0>>, <<0,0>>, <<0,0>>, <<0,0>> >>
      [] shape = "I" -> kick_i(from, to)

\* The masks: row dy of the 4x4 array is element dy+1, column dx is element dx+1
mask_I(rot) ==
    CASE rot = "R0" -> << <<0,0,0,0>>, <<1,1,1,1>>, <<0,0,0,0>>, <<0,0,0,0>> >>
      [] rot = "R90" -> << <<0,0,1,0>>, <<0,0,1,0>>, <<0,0,1,0>>, <<0,0,1,0>> >>
      [] rot = "R180" -> << <<0,0,0,0>>, <<0,0,0,0>>, <<1,1,1,1>>, <<0,0,0,0>> >>
      [] rot = "R270" -> << <<0,1,0,0>>, <<0,1,0,0>>, <<0,1,0,0>>, <<0,1,0,0>> >>

mask_J(rot) ==
    CASE rot = "R0" -> << <<1,0,0,0>>, <<1,1,1,0>>, <<0,0,0,0>>, <<0,0,0,0>> >>
      [] rot = "R90" -> << <<0,1,1,0>>, <<0,1,0,0>>, <<0,1,0,0>>, <<0,0,0,0>> >>
      [] rot = "R180" -> << <<0,0,0,0>>, <<1,1,1,0>>, <<0,0,1,0>>, <<0,0,0,0>> >>
      [] rot = "R270" -> << <<0,1,0,0>>, <<0,1,0,0>>, <<1,1,0,0>>, <<0,0,0,0>> >>

mask_L(rot) ==
    CASE rot = "R0" -> << <<0,0,1,0>>, <<1,1,1,0>>, <<0,0,0,0>>, <<0,0,0,0>> >>
      [] rot = "R90" -> << <<0,1,0,0>>, <<0,1,0,0>>, <<0,1,1,0>>, <<0,0,0,0>> >>
      [] rot = "R180" -> << <<0,0,0,0>>, <<1,1,1,0>>, <<1,0,0,0>>, <<0,0,0,0>> >>
      [] rot = "R270" -> << <<1,1,0,0>>, <<0,1,0,0>>, <<0,1,0,0>>, <<0,0,0,0>> >>

mask_O(rot) ==
    << <<0,0,0,0>>, <<0,1,1,0>>, <<0,1,1,0>>, <<0,0,0,0>> >>

mask_S(rot) ==
    CASE rot = "R0" -> << <<0,1,1,0>>, <<1,1,0,0>>, <<0,0,0,0>>, <<0,0,0,0>> >>
      [] rot = "R90" -> << <<0,1,0,0>>, <<0,1,1,0>>, <<0,0,1,0>>, <<0,0,0,0>> >>
      [] rot = "R180" -> << <<0,0,0,0>>, <<0,1,1,0>>, <<1,1,0,0>>, <<0,0,0,0>> >>
      [] rot = "R270" -> << <<1,0,0,0>>, <<1,1,0,0>>, <<0,1,0,0>>, <<0,0,0,0>> >>

mask_Z(rot) ==
    CASE rot = "R0" -> << <<1,1,0,0>>, <<0,1,1,0>>, <<0,0,0,0>>, <<0,0,0,0>> >>
      [] rot = "R90" -> << <<0,1,0,0>>, <<1,1,0,0>>, <<1,0,0,0>>, <<0,0,0,0>> >>
      [] rot = "R180" -> << <<0,0,0,0>>, <<1,1,0,0>>, <<0,1,1,0>>, <<0,0,0,0>> >>
      [] rot = "R270" -> << <<0,0,1,0>>, <<0,1,1,0>>, <<0,1,0,0>>, <<0,0,0,0>> >>

mask_T(rot) ==
    CASE rot = "R0" -> << <<0,1,0,0>>, <<1,1,1,0>>, <<0,0,0,0>>, <<0,0,0,0>> >>
      [] rot = "R90" -> << <<0,1,0,0>>, <<0,1,1,0>>, <<0,1,0,0>>, <<0,0,0,0>> >>
      [] rot = "R180" -> << <<0,0,0,0>>, <<1,1,1,0>>, <<0,1,0,0>>, <<0,0,0,0>> >>
      [] rot = "R270" -> << <<0,1,0,0>>, <<1,1,0,0>>, <<0,1,0,0>>, <<0,0,0,0>> >>

get_shape(shape, rot) ==
    CASE shape = "I" -> mask_I(rot)
      [] shape = "J" -> mask_J(rot)
      [] shape = "L" -> mask_L(rot)
      [] shape = "O" -> mask_O(rot)
      [] shape = "S" -> mask_S(rot)
      [] shape = "Z" -> mask_Z(rot)
      [] shape = "T" -> mask_T(rot)

\* shape[dy][dx]
tile(mask, dx, dy) == mask[dy + 1][dx + 1] = 1

\* The (dx, dy) of the occupied cells of a mask
tiles(mask) ==
    {d \in (0 .. MaskSize - 1) \X (0 .. MaskSize - 1) : tile(mask, d[1], d[2])}

----------------------------------------------------------------------------
(* game_state.rs: GameState and its operations.  A game state is a record  *)
(* with the fields of the struct (the two Instants are inputs of update).  *)

EmptyBoard ==
    [y \in 0 .. BoardHeight - 1 |-> [x \in 0 .. BoardWidth - 1 |-> "None"]]

\* GameState::new, the starting shape and the first bag being the random draws
GameState_new(shape, bag) ==
    [ player_pos |-> get_spawn_offsets(shape),
      current_shape |-> shape,
      rotation |-> "R0",
      board |-> EmptyBoard,
      score |-> 0,
      held |-> NoShape,
      shape_queue |-> bag,
      just_held |-> FALSE,
      game_phase |-> "Playing" ]

\* The loop nest of can_place from cell k on: dx is the outer index, dy the
\* inner one, and each test returns at once
RECURSIVE can_place_scan(_, _, _, _)
can_place_scan(b, mask, at, k) ==
    IF k = MaskSize * MaskSize THEN TRUE
    ELSE LET dx == k \div MaskSize
             dy == k % MaskSize
             x == at.x + dx
             y == at.y + dy
         IN IF tile(mask, dx, dy)
            THEN IF x < 0 \/ y < 0 THEN FALSE
                 ELSE IF x >= BoardWidth \/ y >= BoardHeight THEN FALSE
                 ELSE IF y >= 0 /\ is_block(b[y][x]) THEN FALSE
                 ELSE can_place_scan(b, mask, at, k + 1)
            ELSE can_place_scan(b, mask, at, k + 1)

\* can_place with the lower bound of the board off by one
can_place_offbyone(b, shape, rot, at) ==
    \A d \in tiles(get_shape(shape, rot)) :
        /\ at.x + d[1] >= 0 /\ at.x + d[1] < BoardWidth
        /\ at.y + d[2] >= 0 /\ at.y + d[2] < BoardHeight - 1
        /\ ~is_block(b[at.y + d[2]][at.x + d[1]])

can_place(b, shape, rot, at) ==
    can_place_scan(b, get_shape(shape, rot), at, 0)

\* Whether row y of b is a full line
row_full(b, y) == \A x \in 0 .. BoardWidth - 1 : is_block(b[y][x])

\* clear_lines moving up after a cleared row instead of scanning it again
RECURSIVE clear_lines_skip(_, _)
clear_lines_skip(s, y) ==
    IF y < 1 THEN s
    ELSE IF ~row_full(s.board, y) THEN clear_lines_skip(s, y - 1)
    ELSE clear_lines_skip(
            [s EXCEPT !.board = [row \in 0 .. BoardHeight - 1 |->
                                    IF row >= 1 /\ row <= y
                                    THEN s.board[row - 1] ELSE s.board[row]],
                      !.score = s.score + LineScore],
            y - 1)

\* clear_lines returning after the first row it has cleared
RECURSIVE clear_lines_once(_, _)
clear_lines_once(s, y) ==
    IF y < 1 THEN s
    ELSE IF ~row_full(s.board, y) THEN clear_lines_once(s, y - 1)
    ELSE [s EXCEPT !.board = [row \in 0 .. BoardHeight - 1 |->
                                 IF row >= 1 /\ row <= y
                                 THEN s.board[row - 1] ELSE s.board[row]],
                   !.score = s.score + LineScore]

\* clear_lines shifting every row of the board, not only those above row y
RECURSIVE clear_lines_all(_, _)
clear_lines_all(s, y) ==
    IF y < 1 THEN s
    ELSE IF ~row_full(s.board, y) THEN clear_lines_all(s, y - 1)
    ELSE clear_lines_all(
            [s EXCEPT !.board = [row \in 0 .. BoardHeight - 1 |->
                                    IF row >= 1
                                    THEN s.board[row - 1] ELSE s.board[row]],
                      !.score = s.score + LineScore],
            y)

\* The loop of clear_lines from row y on: a row that is not full moves the
\* scan up, a full one is overwritten by the rows above and scanned again
RECURSIVE clear_lines_from(_, _)
clear_lines_from(s, y) ==
    IF y < 1 THEN s
    ELSE IF ~row_full(s.board, y) THEN clear_lines_from(s, y - 1)
    ELSE clear_lines_from(
            [s EXCEPT !.board = [row \in 0 .. BoardHeight - 1 |->
                                    IF row >= 1 /\ row <= y
                                    THEN s.board[row - 1] ELSE s.board[row]],
                      !.score = s.score + LineScore],
            y)

clear_lines(s) == clear_lines_from(s, BoardHeight - 1)

\* The board after the writes of place_player
board_with_player(s) ==
    LET mask == get_shape(s.current_shape, s.rotation) IN
    [y \in 0 .. BoardHeight - 1 |-> [x \in 0 .. BoardWidth - 1 |->
        IF /\ x - s.player_pos.x \in 0 .. MaskSize - 1
           /\ y - s.player_pos.y \in 0 .. MaskSize - 1
           /\ tile(mask, x - s.player_pos.x, y - s.player_pos.y)
        THEN get_color(s.current_shape)
        ELSE s.board[y][x]]]

place_player(s) ==
    LET ok == can_place(s.board, s.current_shape, s.rotation, s.player_pos)
    IN clear_lines([s EXCEPT !.game_phase = IF ok THEN @ ELSE "GameOver",
                             !.board = board_with_player(s),
                             !.just_held = FALSE])

\* get_next_shape asking for a bag when 7 shapes are left as well
queue_after_next_le(queue, bag) ==
    IF Len(Tail(queue)) <= BagSize THEN Tail(queue) \o bag ELSE Tail(queue)

\* get_next_shape putting the new bag in front of the shapes that are left
queue_after_next_front(queue, bag) ==
    IF Len(Tail(queue)) < BagSize THEN bag \o Tail(queue) ELSE Tail(queue)

\* The queue after get_next_shape, bag being the bag create_new_7_bag returns
\* when the queue needs one
queue_after_next(queue, bag) ==
    IF Len(Tail(queue)) < BagSize THEN Tail(queue) \o bag ELSE Tail(queue)

player_to_top(s) ==
    [s EXCEPT !.player_pos = get_spawn_offsets(s.current_shape),
              !.rotation = "R0"]

reset_player_piece(s, bag) ==
    player_to_top([s EXCEPT !.current_shape = s.shape_queue[1],
                            !.shape_queue = queue_after_next(s.shape_queue, bag)])

\* place_and_reset without the test of the spawn placement
place_and_reset_untested(s, bag) ==
    reset_player_piece(place_player(s), bag)

\* place_and_reset assigning the phase from the spawn test in both directions
place_and_reset_revive(s, bag) ==
    LET t == reset_player_piece(place_player(s), bag)
    IN [t EXCEPT !.game_phase =
            IF ~can_place(t.board, t.current_shape, t.rotation, t.player_pos)
            THEN "GameOver" ELSE "Playing"]

place_and_reset(s, bag) ==
    LET t == reset_player_piece(place_player(s), bag)
    IN IF ~can_place(t.board, t.current_shape, t.rotation, t.player_pos)
       THEN [t EXCEPT !.game_phase = "GameOver"]
       ELSE t
\* move_player_horizontal moving without the test of the new placement
move_player_horizontal_untested(s, dir) ==
    IF dir \in {"Up", "Down"} THEN s
    ELSE [s EXCEPT !.player_pos.x = @ + to_value(dir)]


move_player_horizontal(s, dir) ==
    IF dir \in {"Up", "Down"} THEN s
    ELSE LET new_pos == Coord(s.player_pos.x + to_value(dir), s.player_pos.y)
         IN IF ~can_place(s.board, s.current_shape, s.rotation, new_pos)
            THEN s
            ELSE [s EXCEPT !.player_pos.x = @ + to_value(dir)]

\* The test of get_drop_position looking at the floor only
drop_blocked_floor(s, mask, ghost_y) ==
    \E d \in tiles(mask) : ghost_y + d[2] + 1 >= BoardHeight

\* Whether some tile of the mask at (player x, ghost_y) stands on the floor
\* or on a block: the test that leaves the loop of get_drop_position
drop_blocked(s, mask, ghost_y) ==
    \E d \in tiles(mask) :
        LET x == s.player_pos.x + d[1]
            y == ghost_y + d[2]
        IN \/ y + 1 >= BoardHeight
           \/ (y + 1 >= 0 /\ is_block(s.board[y + 1][x]))

RECURSIVE drop_from(_, _, _)
drop_from(s, mask, ghost_y) ==
    IF drop_blocked(s, mask, ghost_y) THEN ghost_y
    ELSE drop_from(s, mask, ghost_y + 1)

\* get_drop_position stopping one row above the row the piece comes to rest at
get_drop_position_short(s, mask) ==
    IF drop_blocked(s, mask, s.player_pos.y) THEN s.player_pos.y
    ELSE drop_from(s, mask, s.player_pos.y) - 1

get_drop_position(s, mask) == drop_from(s, mask, s.player_pos.y)

\* hard_drop committing the piece where it stands
hard_drop_in_place(s, bag) == place_and_reset(s, bag)

hard_drop(s, bag) ==
    LET drop_y == get_drop_position(s, get_shape(s.current_shape, s.rotation))
    IN place_and_reset([s EXCEPT !.player_pos.y = drop_y], bag)

\* The value fall_player returns
fall_result(s) ==
    can_place(s.board, s.current_shape, s.rotation,
              Coord(s.player_pos.x, s.player_pos.y + 1))

\* fall_player moving down without the test of the new placement
fall_player_untested(s) == [s EXCEPT !.player_pos.y = @ + 1]

fall_player(s) ==
    IF ~fall_result(s) THEN s ELSE [s EXCEPT !.player_pos.y = @ + 1]

\* The index of the offset the loop of rotate_player stops at, from index i
\* on; 0 when no offset passes
RECURSIVE first_kick(_, _, _, _)
first_kick(s, new_rot, offsets, i) ==
    IF i > Len(offsets) THEN 0
    ELSE IF can_place(s.board, s.current_shape, new_rot,
                      Coord(s.player_pos.x + offsets[i][1],
                            s.player_pos.y + offsets[i][2]))
         THEN i
         ELSE first_kick(s, new_rot, offsets, i + 1)

new_rotation(s, dir) ==
    CASE dir = "Up" -> rotate_cw(s.rotation)
      [] dir = "Down" -> rotate_ccw(s.rotation)

\* The offset rotate_player commits for dir (0: none)
kick_taken(s, dir) ==
    first_kick(s, new_rotation(s, dir),
               get_kick_data(s.current_shape, s.rotation, new_rotation(s, dir)), 1)

\* rotate_player with the loop running on after a placement was found: the
\* last offset that passes is the one committed
rotate_player_last(s, dir) ==
    LET new_rot == new_rotation(s, dir)
        offsets == get_kick_data(s.current_shape, s.rotation, new_rot)
        passing == {i \in 1 .. Len(offsets) :
                       can_place(s.board, s.current_shape, new_rot,
                                 Coord(s.player_pos.x + offsets[i][1],
                                       s.player_pos.y + offsets[i][2]))}
    IN IF passing = {} THEN s
       ELSE LET i == CHOOSE j \in passing : \A k \in passing : k <= j
            IN [s EXCEPT !.player_pos = Coord(s.player_pos.x + offsets[i][1],
                                              s.player_pos.y + offsets[i][2]),
                         !.rotation = new_rot]

rotate_player(s, dir) ==
    LET new_rot == new_rotation(s, dir)
        offsets == get_kick_data(s.current_shape, s.rotation, new_rot)
        i == first_kick(s, new_rot, offsets, 1)
    IN IF i = 0 THEN s
       ELSE [s EXCEPT !.player_pos = Coord(s.player_pos.x + offsets[i][1],
                                           s.player_pos.y + offsets[i][2]),
                      !.rotation = new_rot]

\* hold without the test of just_held
hold_again(s, bag) ==
    LET temp == s.current_shape
        next == s.shape_queue[1]
        popped == [s EXCEPT !.shape_queue = queue_after_next(s.shape_queue, bag)]
    IN [player_to_top([popped EXCEPT
            !.current_shape = IF s.held # NoShape THEN s.held ELSE next,
            !.held = temp])
        EXCEPT !.just_held = TRUE]

\* hold: the argument of unwrap_or is evaluated before the call, so
\* get_next_shape runs whether or not a shape is held
hold(s, bag) ==
    IF s.just_held THEN s
    ELSE LET temp == s.current_shape
             next == s.shape_queue[1]
             popped == [s EXCEPT !.shape_queue = queue_after_next(s.shape_queue, bag)]
         IN [player_to_top([popped EXCEPT
                 !.current_shape = IF s.held # NoShape THEN s.held ELSE next,
                 !.held = temp])
             EXCEPT !.just_held = TRUE]

\* The bags create_new_7_bag is taken to return: permutations of the 7 shapes
BagList ==
    << <<"I", "O", "T", "J", "L", "S", "Z">>,
       <<"T", "I", "L", "O", "Z", "J", "S">>,
       <<"O", "J", "S", "I", "T", "Z", "L">>,
       <<"Z", "L", "I", "T", "S", "O", "J">> >>

Bags == {BagList[i] : i \in 1 .. (IF NumBags < Len(BagList) THEN NumBags ELSE Len(BagList))}

\* The bags create_new_7_bag may return to an operation on s: it is called
\* only by get_next_shape, when the popped queue holds fewer than 7 shapes
draws(s) == IF Len(s.shape_queue) - 1 < BagSize THEN Bags ELSE {<<>>}

----------------------------------------------------------------------------
(* main.rs: update and game_over_update *)

Keys == {"Right", "Left", "Up", "Down", "Z", "Space", "C"}

\* The handler of one key press in update
on_key(s, key, bag) ==
    CASE key = "Right" -> move_player_horizontal(s, "Right")
      [] key = "Left" -> move_player_horizontal(s, "Left")
      [] key = "Up" -> rotate_player(s, "Up")
      [] key = "Down" -> fall_player(s)
      [] key = "Z" -> rotate_player(s, "Down")
      [] key = "Space" -> hard_drop(s, bag)
      [] key = "C" -> hold(s, bag)
\* gravity never committing the piece
gravity_no_lock(s, fall_due, lock_due, bag) ==
    IF ~fall_due THEN s ELSE fall_player(s)


\* gravity locking a piece that cannot fall without waiting for the lock
\* interval
gravity_no_delay(s, fall_due, lock_due, bag) ==
    IF ~fall_due THEN s
    ELSE IF ~fall_result(s) THEN place_and_reset(fall_player(s), bag)
    ELSE fall_player(s)

\* The gravity part of update: fall_due and lock_due say whether the fall
\* interval and the lock interval have elapsed on the clock
gravity(s, fall_due, lock_due, bag) ==
    IF ~fall_due THEN s
    ELSE IF ~fall_result(s) /\ lock_due THEN place_and_reset(fall_player(s), bag)
    ELSE fall_player(s)

\* What a starting state is made of: the random starting shape, the bags the
\* generator returns in order, and the key presses handled since
RECURSIVE run_keys(_, _, _, _)
run_keys(s, keys, bags, i) ==
    IF i > Len(keys) THEN s
    ELSE LET t == on_key(s, keys[i], bags[1])
         IN IF Len(t.shape_queue) > Len(s.shape_queue)
            THEN run_keys(t, keys, Tail(bags), i + 1)
            ELSE run_keys(t, keys, bags, i + 1)

run_script(sc) ==
    run_keys(GameState_new(sc.shape, sc.bags[1]), sc.keys, Tail(sc.bags), 1)

----------------------------------------------------------------------------
(* The state of the program *)

GS ==
    [ player_pos |-> player_pos,
      current_shape |-> current_shape,
      rotation |-> rotation,
      board |-> board,
      score |-> score,
      held |-> held,
      shape_queue |-> shape_queue,
      just_held |-> just_held,
      game_phase |-> game_phase ]

Become(s) ==
    /\ player_pos' = s.player_pos
    /\ current_shape' = s.current_shape
    /\ rotation' = s.rotation
    /\ board' = s.board
    /\ score' = s.score
    /\ held' = s.held
    /\ shape_queue' = s.shape_queue
    /\ just_held' = s.just_held
    /\ game_phase' = s.game_phase

Starts(s) ==
    /\ player_pos = s.player_pos
    /\ current_shape = s.current_shape
    /\ rotation = s.rotation
    /\ board = s.board
    /\ score = s.score
    /\ held = s.held
    /\ shape_queue = s.shape_queue
    /\ just_held = s.just_held
    /\ game_phase = s.game_phase

\* Whether the game is on with the active piece in a valid placement
playing_valid(s) ==
    /\ s.game_phase = "Playing"
    /\ can_place(s.board, s.current_shape, s.rotation, s.player_pos)

\* What the last step did: the operation, the kick a rotation committed, what
\* fall_player returned, whether hold took effect, the lines a placement
\* cleared, the anchor it committed at, whether the step started with
\* the game on and the active piece in a valid placement, whether a key
\* changed the anchor or the rotation, and the time last_input lay back when
\* the key was handled
Did(op) ==
    [op |-> op, kick |-> 0, fell |-> FALSE, took |-> FALSE, lines |-> 0,
     at |-> Coord(0, 0), ok |-> FALSE, moved |-> FALSE, waited |-> 0]

Step == steps < MaxSteps /\ steps' = steps + 1

\* The starting states: a new game for every starting shape and first bag,
\* and states reached from a new game by the listed key presses
Rep(key, n) == [i \in 1 .. n |-> key]

NewGames ==
    {[shape |-> sh, bags |-> <<bag>>, keys |-> <<>>] : sh \in Shapes, bag \in Bags}

\* An I stands upright in column 1; the next I hangs upright in column 0
\* beside it, two rows above the floor of the well
WellScript ==
    [shape |-> "I", bags |-> <<BagList[1], BagList[2]>>,
     keys |-> <<"Up">> \o Rep("Left", 4) \o <<"Space", "Up">> \o Rep("Left", 5)
              \o Rep("Down", 15)]

\* Eleven pieces dropped two columns right of the spawn column
TowerKeys == [i \in 1 .. 33 |-> IF i % 3 = 0 THEN "Space" ELSE "Right"]

\* The tower reaches row 4; the O about to be dropped on it blocks the spawn
\* cells of the Z that follows
TopOutScript ==
    [shape |-> "I", bags |-> <<BagList[1], BagList[2], BagList[3]>>,
     keys |-> TowerKeys \o <<"Right">>]

\* The same tower with the O dropped on it: row 3 is blocked in columns 5
\* and 6, the S that follows spawns beside it, and a Z is next in the queue
HoldClashScript ==
    [shape |-> "I",
     bags |-> <<BagList[1], <<"T", "I", "L", "O", "S", "Z", "J">>, BagList[3]>>,
     keys |-> TowerKeys \o <<"Right", "Space">>]

\* Row 21 is full but for columns 3 to 6, and an I is the active piece
OneRowScript ==
    [shape |-> "J", bags |-> << <<"L", "I", "O", "T", "S", "Z", "J">>, BagList[1]>>,
     keys |-> Rep("Left", 3) \o <<"Space">> \o Rep("Right", 4) \o <<"Space">>]

\* Rows 20 and 21 are full but for column 5; a T is held and an I is the
\* active piece
TwoRowsScript ==
    [shape |-> "I",
     bags |-> << <<"L", "S", "J", "Z", "O", "T", "I">>, BagList[1], BagList[2]>>,
     keys |-> <<"Up">> \o Rep("Right", 4) \o <<"Space">>
              \o Rep("Left", 3) \o <<"Space">> \o Rep("Left", 3) \o <<"Space">>
              \o Rep("Right", 3) \o <<"Space">> \o Rep("Right", 3) \o <<"Space">>
              \o <<"Left", "Space", "C">>]

\* A tower under the spawn cells carries an I lying in row 4 on columns 3 to
\* 6; the next I, rotated there, was kicked up to rows 0 to 3 of column 3 and
\* locked. Row 21 is full but for columns 8 and 9, above which the active O
\* stands
TopRowScript ==
    [shape |-> "L",
     bags |-> << <<"J", "O", "I", "T", "S", "Z", "L">>,
                 <<"J", "T", "O", "S", "Z", "L", "I">>,
                 BagList[1], BagList[2]>>,
     keys |-> Rep("Left", 3) \o <<"Space", "Space", "Right", "Right", "Space">>
              \o <<"Up", "Left", "Space", "Up", "Space">>
              \o Rep("Left", 3) \o <<"Space">> \o Rep("Left", 3) \o <<"Space">>
              \o <<"Z", "Space", "Up", "Space", "Up", "Space">>
              \o <<"Right", "Right", "Space">>
              \o Rep("Left", 3) \o <<"Space">> \o Rep("Left", 3) \o <<"Space">>
              \o Rep("Left", 3) \o <<"Space", "Space">>
              \o <<"Up", "Space">> \o Rep("Right", 4)]

\* The tower with the O dropped on it and two pieces laid aside on the left:
\* the Z that followed could not spawn, the game is over, and the Z has been
\* moved left since; an I, whose spawn cells are free, is next in the queue
StillOverScript ==
    [shape |-> "I",
     bags |-> <<BagList[1], <<"T", "I", "L", "J", "S", "O", "Z">>,
                BagList[1], BagList[2]>>,
     keys |-> TowerKeys \o Rep("Left", 3) \o <<"Space">>
              \o Rep("Left", 3) \o <<"Space", "Right", "Space", "Left">>]

Scripts ==
    NewGames \cup {WellScript, TopOutScript, HoldClashScript, OneRowScript,
                   TwoRowsScript, TopRowScript, StillOverScript}

\* The keys of the moves and rotations only
StampingMoves == {"Right", "Left", "Up", "Z"}

\* The keys whose handler in update ends with last_input = Instant::now()
Stamping == {"Right", "Left", "Up", "Z", "Space"}

\* Instant::elapsed
elapsed(instant) == 0 - instant

\* An instant as seen d clock units later; what lies further back than the
\* longer interval is kept at that distance, every test of update comparing
\* an elapsed time with an interval
later(instant, d) ==
    IF instant - d < 0 - fall_interval THEN 0 - fall_interval ELSE instant - d

\* No call of create_new_7_bag is followed step by step
NoBagCall ==
    /\ new_queue = [i \in 0 .. BagSize - 1 |-> NoShape]
    /\ bag_x = 0

\* No call is followed step by step
NoCall == NoBagCall /\ clear_y = 0

\* A new game has seen no key press: both instants are those of
\* GameState::new. After key presses update is in its event loop: its fall
\* test has just run, and last_input is the present instant if the last key
\* handled is one that sets it
Init ==
    /\ \E sc \in Scripts :
          /\ Starts(run_script(sc))
          /\ IF sc.keys = <<>>
             THEN /\ pc = "frame"
                  /\ last_fall \in {0, 0 - fall_interval}
                  /\ last_input = last_fall
             ELSE /\ pc = "events"
                  /\ last_fall \in {0, 1 - fall_interval}
                  /\ last_input \in
                        IF sc.keys[Len(sc.keys)] \in Stamping
                        THEN {0} ELSE {0, 0 - lock_interval}
    /\ NoCall
    /\ steps = 0
    /\ last = Did("start")

\* update up to the event loop: the fall step and the lock
Update ==
    /\ pc = "frame"
    /\ game_phase = "Playing"
    /\ Step
    /\ \E bag \in draws(GS) :
          LET fall_due == elapsed(last_fall) >= fall_interval
              lock_due == elapsed(last_input) >= lock_interval
              locks == fall_due /\ ~fall_result(GS) /\ lock_due
          IN \E t \in {gravity(GS, fall_due, lock_due, bag)} :
             /\ Become(t)
             /\ last_fall' = IF fall_due THEN 0 ELSE last_fall
             /\ last' = [Did(IF ~fall_due THEN "idle" ELSE IF locks THEN "lock" ELSE "fall")
                           EXCEPT !.fell = fall_due /\ fall_result(GS),
                                  !.lines = (t.score - score) \div LineScore,
                                  !.at = IF locks THEN player_pos ELSE Coord(0, 0),
                                  !.ok = playing_valid(GS)]
    /\ pc' = "events"
    /\ UNCHANGED <<last_input, locals>>

\* One turn of the event loop of update: a key press is read and handled
Key(key) ==
    /\ pc = "events"
    /\ Step
    /\ \E bag \in (IF key \in {"Space", "C"} THEN draws(GS) ELSE {<<>>}) :
          \E t \in {on_key(GS, key, bag)} :
             /\ Become(t)
             /\ last' = [Did(key)
                           EXCEPT !.kick = CASE key = "Up" -> kick_taken(GS, "Up")
                                             [] key = "Z" -> kick_taken(GS, "Down")
                                             [] OTHER -> 0,
                                  !.fell = key = "Down" /\ fall_result(GS),
                                  !.took = key = "C" /\ ~just_held,
                                  !.lines = (t.score - score) \div LineScore,
                                  !.at = IF key = "Space"
                                         THEN Coord(player_pos.x,
                                                    get_drop_position(GS,
                                                        get_shape(current_shape, rotation)))
                                         ELSE Coord(0, 0),
                                  !.ok = playing_valid(GS),
                                  !.moved = t.player_pos # player_pos
                                            \/ t.rotation # rotation,
                                  !.waited = elapsed(last_input)]
    /\ last_input' = IF key \in Stamping THEN 0 ELSE last_input
    /\ pc' = pc
    /\ UNCHANGED <<last_fall, locals>>

KeyRight == Key("Right")

KeyLeft == Key("Left")

KeyUp == Key("Up")

KeyDown == Key("Down")

KeyZ == Key("Z")

KeySpace == Key("Space")

KeyC == Key("C")

\* poll finds no further event: update returns, and main sleeps to the end
\* of the frame; d clock units pass before the next pass of the loop (once
\* the game is over nothing reads the instants before GameState::new sets
\* them again)
EndUpdate ==
    /\ pc = "events"
    /\ Step
    /\ pc' = "frame"
    /\ last' = Did("end")
    /\ \E d \in (IF game_phase = "Playing" THEN 0 .. fall_interval ELSE {0}) :
          /\ last_fall' = later(last_fall, d)
          /\ last_input' = later(last_input, d)
    /\ UNCHANGED <<core, locals>>

\* game_over_update: any key press replaces the game by a new one
Restart ==
    /\ pc = "frame"
    /\ game_phase = "GameOver"
    /\ Step
    /\ \E shape \in Shapes, bag \in Bags : Become(GameState_new(shape, bag))
    /\ last_fall' = 0
    /\ last_input' = 0
    /\ last' = Did("restart")
    /\ pc' = "frame"
    /\ UNCHANGED locals

Next ==
    \/ Update
    \/ KeyRight
    \/ KeyLeft
    \/ KeyUp
    \/ KeyDown
    \/ KeyZ
    \/ KeySpace
    \/ KeyC
    \/ EndUpdate
    \/ Restart

Spec == Init /\ [][Next]_vars

----------------------------------------------------------------------------
(* can_place as a function of its arguments: it is called once on a board  *)
(* of a starting state with every shape, rotation and anchor around the    *)
(* board                                                                   *)

Anchors ==
    {Coord(x, y) : x \in -AnchorPad .. BoardWidth - 1 + AnchorPad,
                   y \in -AnchorPad .. BoardHeight - 1 + AnchorPad}

SampleScripts ==
    {[shape |-> "T", bags |-> <<BagList[1]>>, keys |-> <<>>],
     HoldClashScript, TwoRowsScript}

InitCanPlace ==
    /\ \E sc \in SampleScripts : Starts(run_script(sc))
    /\ last_fall = 0
    /\ last_input = 0
    /\ NoCall
    /\ pc = "call"
    /\ steps = 0
    /\ last = Did("start")

CallCanPlace ==
    /\ pc = "call"
    /\ \E shape \in Shapes, rot \in Rotations, at \in Anchors :
          last' = [op |-> "can_place", shape |-> shape, rot |-> rot, at |-> at,
                   ret |-> can_place(board, shape, rot, at)]
    /\ pc' = "done"
    /\ UNCHANGED <<core, timers, locals, steps>>

SpecCanPlace == InitCanPlace /\ [][CallCanPlace]_vars

\* The board cell a tile d of a mask anchored at `at` maps to
cell_x(at, d) == at.x + d[1]

cell_y(at, d) == at.y + d[2]

\* C1: can_place returns true if and only if every occupied cell of the mask
\* maps to a board coordinate with 0 <= x < 10 and 0 <= y < 22 whose cell is
\* Empty, for every shape, rotation, anchor (negative and too large ones
\* included) and board; the call leaves the state as it was.
C1_CanPlaceResult ==
    last.op = "can_place" =>
        (last.ret <=>
            \A d \in tiles(get_shape(last.shape, last.rot)) :
                /\ 0 <= cell_x(last.at, d) /\ cell_x(last.at, d) < 10
                /\ 0 <= cell_y(last.at, d) /\ cell_y(last.at, d) < 22
                /\ board[cell_y(last.at, d)][cell_x(last.at, d)] = "None")

C1_CanPlace ==
    /\ []C1_CanPlaceResult
    /\ [][last'.op = "can_place" => UNCHANGED core]_vars

\* can_place has accepted a placement at a negative anchor on a board that
\* holds settled cells
C1_Witness ==
    /\ last.op = "can_place"
    /\ last.ret
    /\ last.at.x < 0
    /\ board # EmptyBoard

----------------------------------------------------------------------------
(* Claims about the game *)

\* The steps that commit the active piece: a hard drop, or the lock of update
Placing == {"Space", "lock"}

\* The rotation a rotate key asks for, from the rotation before the step
target_rotation(op) ==
    IF op = "Up" THEN rotate_cw(rotation) ELSE rotate_ccw(rotation)

\* The anchor the i-th kick offset of a rotation to `to` leads to
kicked(to, i) ==
    LET offsets == get_kick_data(current_shape, rotation, to)
    IN Coord(player_pos.x + offsets[i][1], player_pos.y + offsets[i][2])

\* The kick offsets of a rotation to `to` whose anchor passes can_place
passing_kicks(to) ==
    {i \in 1 .. 5 : can_place(board, current_shape, to, kicked(to, i))}

\* C2: a rotation commits the lowest-index kick offset whose translated
\* anchor passes can_place with the target rotation's mask, anchor and
\* rotation becoming exactly that candidate; if none of the 5 candidates
\* passes, anchor and rotation are both unchanged.
C2_RotateFirstKick ==
    [][last'.op \in {"Up", "Z"} =>
        \E to \in {target_rotation(last'.op)} :
        \E ok \in {passing_kicks(to)} :
           IF ok = {}
           THEN player_pos' = player_pos /\ rotation' = rotation
           ELSE \E i \in ok :
                   /\ \A j \in ok : i <= j
                   /\ player_pos' = kicked(to, i)
                   /\ rotation' = to]_vars

\* A rotation whose first candidate was blocked has committed the second
C2_Witness ==
    /\ last.op \in {"Up", "Z"}
    /\ last.kick = 2

\* C3: when hold takes effect while a piece is held, the new active kind is
\* the previously held kind and the piece queue is left unchanged; hold pops
\* the queue only when the held slot was empty.
C3_HoldKeepsQueue ==
    [][(last'.op = "C" /\ last'.took) =>
        IF held # NoShape
        THEN current_shape' = held /\ shape_queue' = shape_queue
        ELSE current_shape' = shape_queue[1] /\ shape_queue' # shape_queue]_vars

\* C4: once the phase is GameOver, no move, rotation or fall step, the key
\* presses still pending in the same pass of update included, changes the
\* board or the kind, rotation or anchor of the active piece.
C4_GameOverFreezes ==
    [][(game_phase = "GameOver" /\ last'.op \in {"Left", "Right", "Up", "Z", "Down"}) =>
        UNCHANGED <<board, current_shape, rotation, player_pos>>]_vars

\* C5: in every reachable state whose phase is Playing, the placement of the
\* active piece is valid: can_place holds for its kind, rotation and anchor.
C5_PlayingIsPlaceable ==
    game_phase = "Playing" =>
        can_place(board, current_shape, rotation, player_pos)

\* C6: the commit that writes the active piece onto the board is executed
\* only for a placement that passes can_place: every cell it writes was Empty
\* just before.
C6_CommitOnEmptyCells ==
    [][last'.op \in Placing =>
        /\ can_place(board, current_shape, rotation, last'.at)
        /\ \A y \in 0 .. 21, x \in 0 .. 9 :
              board[y][x] # "None" => board_with_player(
                  [GS EXCEPT !.player_pos = last'.at])[y][x] = board[y][x]]_vars

\* ---- clear_lines on boards with one full row ----

ColorList == <<"Cyan", "Blue", "Orange", "Yellow", "Green", "Purple", "Red">>

\* Occupancy of cell (x, y) in the p-th sample of the rows around the full one
occupied(p, x, y) ==
    CASE p = 1 -> FALSE
      [] p = 2 -> x % 2 = 0
      [] p = 3 -> x < y % BoardWidth
      [] OTHER -> (x + p * y) % 5 < 2

\* A board whose only full row is r
one_row_board(r, p) ==
    [y \in 0 .. BoardHeight - 1 |-> [x \in 0 .. BoardWidth - 1 |->
        IF y = r \/ occupied(p, x, y)
        THEN ColorList[((x + y) % 7) + 1]
        ELSE "None"]]

InitClear ==
    /\ \E r \in 2 .. BoardHeight - 1, p \in 1 .. ClearPatterns :
          Starts([GameState_new("T", BagList[1]) EXCEPT
                    !.board = one_row_board(r, p)])
    /\ last_fall = 0
    /\ last_input = 0
    /\ NoCall
    /\ pc = "call"
    /\ steps = 0
    /\ last = Did("start")

CallClearLines ==
    /\ pc = "call"
    /\ Become(clear_lines(GS))
    /\ last' = [op |-> "clear_lines",
                rows |-> {y \in 0 .. BoardHeight - 1 : row_full(board, y)}]
    /\ pc' = "done"
    /\ UNCHANGED <<timers, locals, steps>>

SpecClear == InitClear /\ [][CallClearLines]_vars

\* The board b has exactly one full row, and it is row r
only_full_row(b, r) ==
    \A y \in 0 .. 21 : (\A x \in 0 .. 9 : b[y][x] # "None") <=> y = r

\* C8: after clear_lines on a board with exactly one full row r, 2 <= r <= 21,
\* every row i of 1..r holds what row i-1 held, the rows below r are as they
\* were, and exactly one clear has been counted.
C8_RowsShiftDown ==
    [][last'.op = "clear_lines" =>
        \A r \in 2 .. 21 : only_full_row(board, r) =>
            /\ \A i \in 1 .. r : board'[i] = board[i - 1]
            /\ \A i \in r + 1 .. 21 : board'[i] = board[i]
            /\ score' = score + 100]_vars

\* clear_lines has run on a board with row 0 partly occupied and full row 5
C8_Witness ==
    /\ last.op = "clear_lines"
    /\ last.rows = {5}
    /\ \E x \in 0 .. 9 : board[0][x] # "None"
    /\ \E x \in 0 .. 9 : board[21][x] # "None"
    /\ score = 100

\* The board with the active piece written at anchor `at`
committed(at) ==
    [y \in 0 .. 21 |-> [x \in 0 .. 9 |->
        IF \E d \in tiles(get_shape(current_shape, rotation)) :
              cell_x(at, d) = x /\ cell_y(at, d) = y
        THEN get_color(current_shape)
        ELSE board[y][x]]]

full_rows(b) == {y \in 1 .. 21 : \A x \in 0 .. 9 : b[y][x] # "None"}

\* C7: after clear_lines has run on a board with exactly one full row r,
\* 2 <= r <= 21, whatever the other rows (row 0 included) hold, every cell
\* of row 0 is Empty.
C7_TopRowEmptied ==
    [][last'.op \in Placing =>
        \A r \in 2 .. 21 : only_full_row(committed(last'.at), r) =>
            \A x \in 0 .. 9 : board'[0][x] = "None"]_vars

\* C9: a placement that leaves k of the rows 1..21 fully occupied removes
\* all k of them (the other rows keep their order and move down past the
\* removed ones) and adds exactly 100*k to the score; the score is never
\* negative, never decreases while a game lasts, and changes only in a
\* placement.
C9_ScorePerRow ==
    /\ [](score >= 0)
    /\ [][/\ last'.op \in Placing =>
               \E b \in {committed(last'.at)} :
               \E full \in {full_rows(b)} :
                  /\ score' = score + 100 * Cardinality(full)
                  /\ full_rows(board') = {}
                  /\ \A y \in (1 .. 21) \ full :
                        board'[y + Cardinality({f \in full : f > y})] = b[y]
          /\ last'.op \notin Placing \cup {"restart"} => score' = score
          /\ last'.op # "restart" => score' >= score]_vars

\* A placement has cleared two rows at once
C9_Witness ==
    /\ last.op \in Placing
    /\ last.lines = 2
    /\ score = 200

\* C10: with nothing held and just_held false, hold sets just_held, stores
\* the active kind as held and puts the new active piece at its spawn anchor
\* with rotation R0; a hold while just_held is set changes nothing of the
\* state; a placement resets just_held, and only a placement (or a new game)
\* does, so at most one hold takes effect between two placements.
C10_HoldOncePerPiece ==
    [][/\ (last'.op = "C" /\ ~just_held /\ held = NoShape) =>
              /\ just_held'
              /\ held' = current_shape
              /\ current_shape' = shape_queue[1]
              /\ player_pos' = get_spawn_offsets(current_shape')
              /\ rotation' = "R0"
       /\ (last'.op = "C" /\ just_held) => UNCHANGED core
       /\ (last'.op = "C" /\ core' # core) => ~just_held /\ just_held'
       /\ last'.op \in Placing => ~just_held'
       /\ (just_held /\ ~just_held') => last'.op \in Placing \cup {"restart"}]_vars

\* A second hold before the next placement has been ignored
C10_Witness ==
    /\ last.op = "C"
    /\ ~last.took
    /\ just_held
    /\ held # NoShape

\* C11: the phase is Playing or GameOver in every reachable state; once it is
\* GameOver no move, rotation, fall, hard drop, hold or placement changes it,
\* and it becomes Playing again only by a restart, which replaces the whole
\* state by a new game: empty board, score 0, nothing held, just_held false
\* and a queue of one bag.
C11_PhaseOnlyRestarts ==
    /\ [](game_phase \in {"Playing", "GameOver"})
    /\ [][/\ (game_phase = "GameOver" /\ last'.op # "restart") =>
                 game_phase' = "GameOver"
          /\ last'.op = "restart" =>
                 /\ game_phase' = "Playing"
                 /\ board' = EmptyBoard
                 /\ score' = 0
                 /\ held' = NoShape
                 /\ ~just_held'
                 /\ Len(shape_queue') = 7
                 /\ rotation' = "R0"
                 /\ player_pos' = get_spawn_offsets(current_shape')]_vars

\* A piece was committed while the game was over and the piece that followed
\* could spawn: the game is still over
C11_Witness ==
    /\ last.op = "Space"
    /\ game_phase = "GameOver"
    /\ can_place(board, current_shape, rotation, player_pos)

\* C12: in every reachable state the queue holds at least 7 and at most 13
\* shapes; a call of get_next_shape removes the front shape and, when fewer
\* than 7 are left, appends exactly one bag of 7 before it returns.
C12_QueueLength ==
    /\ [](Len(shape_queue) \in 7 .. 13)
    /\ [][(last'.op # "restart" /\ shape_queue' # shape_queue) =>
            /\ SubSeq(shape_queue', 1, Len(shape_queue) - 1) = Tail(shape_queue)
            /\ Len(shape_queue') = IF Len(shape_queue) - 1 < 7
                                   THEN Len(shape_queue) - 1 + 7
                                   ELSE Len(shape_queue) - 1
            /\ Len(shape_queue') > Len(shape_queue) =>
                  \A sh \in Shapes :
                     \E i \in Len(shape_queue) .. Len(shape_queue') :
                        shape_queue'[i] = sh]_vars

\* A call of get_next_shape found 6 shapes left and appended a bag
C12_Witness ==
    /\ last.op \in {"Space", "C", "lock"}
    /\ Len(shape_queue) = 13

\* C14: from a Playing state with the active piece in a valid placement,
\* place_and_reset makes the front of the queue the active kind, at its
\* spawn anchor ((3,1) for I and O, (3,2) for J, L, S, T, Z) with rotation
\* R0, and the phase becomes GameOver if and only if that placement fails
\* can_place on the board left by the commit and the clearing of rows.
C14_SpawnOrGameOver ==
    [][(/\ last'.op \in Placing
        /\ game_phase = "Playing"
        /\ can_place(board, current_shape, rotation, player_pos)) =>
           /\ current_shape' = shape_queue[1]
           /\ player_pos' = IF current_shape' \in {"I", "O"}
                            THEN Coord(3, 1) ELSE Coord(3, 2)
           /\ rotation' = "R0"
           /\ game_phase' = "GameOver" <=>
                 ~can_place(board', current_shape', rotation', player_pos')]_vars

\* A piece in a valid placement was committed and the next one cannot spawn
C14_Witness ==
    /\ last.op \in Placing
    /\ last.ok
    /\ game_phase = "GameOver"
    /\ ~can_place(board, current_shape, rotation, player_pos)

\* The largest row offset of a tile of the mask
lowest_tile(mask) ==
    CHOOSE dy \in 0 .. MaskSize - 1 :
        /\ \E d \in tiles(mask) : d[2] = dy
        /\ \A d \in tiles(mask) : d[2] <= dy

\* C16: a hard drop on the empty board leaves the cells of the piece, in its
\* colour, with the lowest of them in row 21 and nothing else on the board; an
\* I at (3,1) in R0 ends with its anchor in row 20 and row 21, columns 3 to
\* 6, Cyan; the score is unchanged and the new active piece is the shape
\* that was at the front of the queue.
C16_DropOnEmptyBoard ==
    [][(board = EmptyBoard /\ last'.op = "Space") =>
          \E mask \in {get_shape(current_shape, rotation)} :
             \E y \in {BoardHeight - 1 - lowest_tile(mask)} :
                /\ \A cx \in 0 .. BoardWidth - 1, cy \in 0 .. BoardHeight - 1 :
                      board'[cy][cx] =
                         IF <<cx - player_pos.x, cy - y>> \in tiles(mask)
                         THEN get_color(current_shape) ELSE "None"
                /\ \E d \in tiles(mask) : y + d[2] = 21
                /\ score' = score
                /\ current_shape' = shape_queue[1]
                /\ (current_shape = "I" /\ rotation = "R0" /\ player_pos = Coord(3, 1)) =>
                      /\ last'.at = Coord(3, 20)
                      /\ \A cx \in 3 .. 6 : board'[21][cx] = "Cyan"]_vars

\* An I has been hard-dropped from its spawn placement on the empty board
C16_Witness ==
    /\ last.op = "Space"
    /\ last.at = Coord(3, 20)
    /\ score = 0
    /\ \A cx \in 0 .. BoardWidth - 1, cy \in 0 .. BoardHeight - 1 :
          is_block(board[cy][cx]) <=> (cy = 21 /\ cx \in 3 .. 6)
    /\ \A cx \in 3 .. 6 : board[21][cx] = "Cyan"

\* A step of update from its start to its event loop
UpdateStep == pc = "frame" /\ pc' = "events"

\* C19: in update, gravity commits the active piece (place_and_reset takes
\* the next shape from the queue) exactly when the fall interval has
\* elapsed, the fall step failed, and at least one lock interval has elapsed
\* since the instant last_input, which every move and rotate input sets
\* (C20); so no piece is locked by gravity less than one lock interval
\* after such an input.
C19_GravityLock ==
    [][UpdateStep =>
          /\ shape_queue' # shape_queue <=>
                /\ elapsed(last_fall) >= fall_interval
                /\ ~can_place(board, current_shape, rotation,
                              Coord(player_pos.x, player_pos.y + 1))
                /\ elapsed(last_input) >= lock_interval
          /\ elapsed(last_input) < lock_interval =>
                /\ board' = board
                /\ current_shape' = current_shape]_vars

\* Gravity has locked a piece that stood in a valid placement: the fall
\* was due and failed, and the last input lies a lock interval back
C19_Witness ==
    /\ last.op = "lock"
    /\ last.ok
    /\ pc = "events"
    /\ last_fall = 0
    /\ elapsed(last_input) >= lock_interval

\* C20 as stated: every move-left, move-right and rotate input sets
\* last_input to the present instant, also when it changes nothing; a
\* soft-drop or hard-drop input leaves last_input as it was.
C20_StampedByMovesOnly ==
    [][/\ last'.op \in {"Left", "Right", "Up", "Z"} => last_input' = 0
       /\ last'.op \in {"Down", "Space"} => last_input' = last_input]_vars

\* C20: every move-left, move-right, rotate and hard-drop input sets
\* last_input to the present instant, also when the move or rotation is
\* blocked and changes nothing; a soft-drop or hold input leaves last_input
\* as it was.
C20_StampedByMovesAndHardDrop ==
    [][/\ last'.op \in {"Left", "Right", "Up", "Z", "Space"} => last_input' = 0
       /\ last'.op \in {"Down", "C"} => last_input' = last_input]_vars

\* A move or rotation that was blocked and changed nothing has set
\* last_input, which lay in the past, to the present instant
C20_Witness ==
    /\ last.op \in {"Left", "Right", "Up", "Z"}
    /\ ~last.moved
    /\ last.waited > 0
    /\ last_input = 0

\* C25: in every reachable state, and so after every place_and_reset, no
\* row of the board with index 1..21 is full: clear_lines scans a row
\* again after each shift and leaves no full row behind.
C25_NoFullRow ==
    \A y \in 1 .. BoardHeight - 1 : ~row_full(board, y)

\* A commit has filled two rows at once; both were cleared, and cells of
\* the rows above have come down to the floor
C25_Witness ==
    /\ last.op \in Placing
    /\ last.lines = 2
    /\ \E x \in 0 .. BoardWidth - 1 : is_block(board[BoardHeight - 1][x])
    /\ \A y \in 1 .. BoardHeight - 1 : ~row_full(board, y)

\* C26: every commit is made at a resting position: when hard_drop or the
\* gravity part of update commits the active piece, can_place fails for its
\* shape and rotation one row below the anchor it is written at; no piece is
\* locked while it could still fall.
C26_CommitAtRest ==
    [][/\ last'.op = "Space" =>
             \E at \in {last'.at} :
                /\ at.x = player_pos.x
                /\ last'.lines = 0 => board' = committed(at)
                /\ ~can_place(board, current_shape, rotation, Coord(at.x, at.y + 1))
       /\ (UpdateStep /\ shape_queue' # shape_queue) =>
             /\ last'.lines = 0 => board' = committed(player_pos)
             /\ ~can_place(board, current_shape, rotation,
                           Coord(player_pos.x, player_pos.y + 1))]_vars

\* A hard drop has committed a piece that rests on settled cells above the
\* floor, with no row cleared
C26_Witness ==
    /\ last.op = "Space"
    /\ last.ok
    /\ last.lines = 0
    /\ last.at.y < BoardHeight - MaskSize
    /\ \E x \in 0 .. BoardWidth - 1 :
          /\ is_block(board[last.at.y + 1][x])
          /\ ~is_block(board[BoardHeight - 1][x])

----------------------------------------------------------------------------
(* get_drop_position and hard_drop called on a board of a starting state,  *)
(* with the active piece in every valid placement on it                    *)

InitDrop ==
    /\ \E sc \in SampleScripts :
          \E s \in {run_script(sc)} :
             \E shape \in Shapes, rot \in Rotations, at \in Anchors :
                /\ can_place(s.board, shape, rot, at)
                /\ Starts([s EXCEPT !.current_shape = shape,
                                    !.rotation = rot,
                                    !.player_pos = at])
    /\ last_fall = 0
    /\ last_input = 0
    /\ NoCall
    /\ pc = "call"
    /\ steps = 0
    /\ last = Did("start")

CallGetDropPosition ==
    /\ pc = "call"
    /\ last' = [op |-> "get_drop_position",
                ret |-> get_drop_position(GS, get_shape(current_shape, rotation))]
    /\ pc' = "done"
    /\ UNCHANGED <<core, timers, locals, steps>>

CallHardDrop ==
    /\ pc = "call"
    /\ \E bag \in draws(GS) : Become(hard_drop(GS, bag))
    /\ last' = [op |-> "hard_drop", ret |-> 0]
    /\ pc' = "done"
    /\ UNCHANGED <<timers, locals, steps>>

SpecDrop == InitDrop /\ [][CallGetDropPosition \/ CallHardDrop]_vars

\* The state fall_player leaves once it has returned false
RECURSIVE fall_to_rest(_)
fall_to_rest(s) ==
    IF fall_result(s) THEN fall_to_rest(fall_player(s)) ELSE s

\* Whether the active piece can be placed in its column at every row from
\* its anchor down to y
free_down_to(y) ==
    \A yy \in player_pos.y .. y :
        can_place(board, current_shape, rotation, Coord(player_pos.x, yy))

\* The largest row the anchor of the active piece reaches through free rows
lowest_free_y ==
    CHOOSE y \in player_pos.y .. BoardHeight :
        /\ ~can_place(board, current_shape, rotation, Coord(player_pos.x, y + 1))
        /\ free_down_to(y)

\* C15: from a valid placement of the active piece, get_drop_position returns
\* the row the anchor stands at once fall_player has been applied until it
\* returns false, which is the largest y' >= y with can_place true at every
\* row from y to y'; the falls leave x and the rotation alone, and hard_drop
\* commits the piece at that row.
C15_DropIsFallLimit ==
    /\ [](last.op = "get_drop_position" =>
            \E rest \in {fall_to_rest(GS)} :
               /\ last.ret = rest.player_pos.y
               /\ last.ret = lowest_free_y
               /\ rest.player_pos.x = player_pos.x
               /\ rest.rotation = rotation)
    /\ [][last'.op = "hard_drop" =>
            board' = place_player([GS EXCEPT !.player_pos.y = lowest_free_y]).board]_vars

\* get_drop_position has returned a row below the anchor at which the piece
\* stands on a settled block
C15_Witness ==
    /\ last.op = "get_drop_position"
    /\ last.ret > player_pos.y
    /\ \E d \in tiles(get_shape(current_shape, rotation)) :
          /\ last.ret + d[2] + 1 < BoardHeight
          /\ is_block(board[last.ret + d[2] + 1][player_pos.x + d[1]])

----------------------------------------------------------------------------
(* rotate_player and move_player_horizontal called with every Direction,   *)
(* and fall_player, on the starting states of the game and on the sample   *)
(* boards with the active piece in every valid placement                   *)

\* The directions for which the match of rotate_player reaches the
\* unreachable!() arm: the call panics, and the process ends with it
rotate_player_panics(dir) == dir \notin {"Up", "Down"}

InitDirection ==
    /\ \/ \E sc \in Scripts : Starts(run_script(sc))
       \/ \E sc \in SampleScripts :
             \E s \in {run_script(sc)} :
                \E shape \in Shapes, rot \in Rotations, at \in Anchors :
                   /\ can_place(s.board, shape, rot, at)
                   /\ Starts([s EXCEPT !.current_shape = shape,
                                       !.rotation = rot,
                                       !.player_pos = at])
    /\ last_fall = 0
    /\ last_input = 0
    /\ NoCall
    /\ pc = "call"
    /\ steps = 0
    /\ last = Did("start")

CallRotatePlayer ==
    /\ pc = "call"
    /\ \E dir \in Directions :
          IF rotate_player_panics(dir)
          THEN /\ last' = [op |-> "rotate_player", dir |-> dir, ret |-> "panicked"]
               /\ pc' = "aborted"
               /\ UNCHANGED core
          ELSE /\ last' = [op |-> "rotate_player", dir |-> dir, ret |-> "returned"]
               /\ pc' = "done"
               /\ Become(rotate_player(GS, dir))
    /\ UNCHANGED <<timers, locals, steps>>

CallMovePlayerHorizontal ==
    /\ pc = "call"
    /\ \E dir \in Directions :
          /\ last' = [op |-> "move_player_horizontal", dir |-> dir,
                      ret |-> "returned", from |-> player_pos]
          /\ Become(move_player_horizontal(GS, dir))
    /\ pc' = "done"
    /\ UNCHANGED <<timers, locals, steps>>

CallFallPlayer ==
    /\ pc = "call"
    /\ last' = [op |-> "fall_player", ret |-> fall_result(GS)]
    /\ Become(fall_player(GS))
    /\ pc' = "done"
    /\ UNCHANGED <<timers, locals, steps>>

SpecDirection ==
    InitDirection
    /\ [][CallRotatePlayer \/ CallMovePlayerHorizontal \/ CallFallPlayer]_vars

\* C17: rotate_player called with Left or Right returns normally, without
\* ending the process, and leaves the whole state as it was, as
\* move_player_horizontal does with Up and Down.
C17_InvalidRotateIgnored ==
    [][(last'.op = "rotate_player" /\ last'.dir \in {"Left", "Right"}) =>
          /\ last'.ret = "returned"
          /\ UNCHANGED core]_vars

\* C21: move_player_horizontal with Left or Right changes the x of the
\* anchor by -1 or +1 when can_place holds for the mask of the current
\* rotation at the shifted anchor; when it is blocked, or the direction is
\* Up or Down, nothing changes; in every case the y of the anchor, the
\* rotation, the shape, the board, the score, the held shape, the queue and
\* the phase are as before.
C21_MoveHorizontal ==
    [][last'.op = "move_player_horizontal" =>
          \E dx \in {CASE last'.dir = "Left" -> -1
                       [] last'.dir = "Right" -> 1
                       [] OTHER -> 0} :
             /\ player_pos'.x =
                   IF dx # 0 /\ can_place(board, current_shape, rotation,
                                          Coord(player_pos.x + dx, player_pos.y))
                   THEN player_pos.x + dx ELSE player_pos.x
             /\ player_pos'.y = player_pos.y
             /\ UNCHANGED <<rotation, current_shape, board, score, held,
                            shape_queue, just_held, game_phase>>]_vars

\* A move to the left was blocked by a settled cell, not by the wall, and
\* the piece stands where it stood
C21_Witness ==
    /\ last.op = "move_player_horizontal"
    /\ last.dir = "Left"
    /\ last.from = player_pos
    /\ can_place(EmptyBoard, current_shape, rotation,
                 Coord(player_pos.x - 1, player_pos.y))
    /\ ~can_place(board, current_shape, rotation,
                  Coord(player_pos.x - 1, player_pos.y))

\* C22: fall_player returns true and adds 1 to the y of the anchor when
\* can_place holds one row lower; otherwise it returns false and leaves the
\* whole state as it was; it never changes the x of the anchor, the
\* rotation, the shape, the board, the score, the queue, the held shape or
\* the phase: the piece is not locked by it.
C22_FallOneStep ==
    [][last'.op = "fall_player" =>
          \E free \in {can_place(board, current_shape, rotation,
                                 Coord(player_pos.x, player_pos.y + 1))} :
             /\ last'.ret = free
             /\ player_pos'.y = IF free THEN player_pos.y + 1 ELSE player_pos.y
             /\ player_pos'.x = player_pos.x
             /\ UNCHANGED <<rotation, current_shape, board, score, held,
                            shape_queue, just_held, game_phase>>]_vars

\* fall_player has returned false for a piece in a valid placement that
\* stands on a settled cell above the floor
C22_Witness ==
    /\ last.op = "fall_player"
    /\ ~last.ret
    /\ can_place(board, current_shape, rotation, player_pos)
    /\ can_place(EmptyBoard, current_shape, rotation,
                 Coord(player_pos.x, player_pos.y + 1))

\* The board cells the active piece covers
covered(shape, rot, at) ==
    {<<at.x + d[1], at.y + d[2]>> : d \in tiles(get_shape(shape, rot))}

\* C23: for an active O in a valid placement rotate_player, clockwise or
\* counter-clockwise, from every rotation, commits the offset (0,0): the
\* rotation becomes the next one in that direction, the anchor and the board
\* cells the piece covers are as before, and nothing else changes.
C23_RotateO ==
    [][(/\ last'.op = "rotate_player"
        /\ last'.dir \in {"Up", "Down"}
        /\ current_shape = "O"
        /\ can_place(board, current_shape, rotation, player_pos)) =>
          /\ rotation' = IF last'.dir = "Up" THEN rotate_cw(rotation)
                         ELSE rotate_ccw(rotation)
          /\ player_pos' = player_pos
          /\ covered("O", rotation', player_pos') = covered("O", rotation, player_pos)
          /\ UNCHANGED <<current_shape, board, score, held, shape_queue,
                         just_held, game_phase>>]_vars

\* An O standing right of a settled cell has been rotated counter-clockwise
\* from R0 to R270
C23_Witness ==
    /\ last.op = "rotate_player"
    /\ last.dir = "Down"
    /\ current_shape = "O"
    /\ rotation = "R270"
    /\ can_place(board, current_shape, rotation, player_pos)
    /\ ~can_place(board, current_shape, rotation,
                  Coord(player_pos.x - 1, player_pos.y))
    /\ player_pos.x > -1

----------------------------------------------------------------------------
(* clear_lines followed turn by turn of its while loop, on boards with one *)
(* full row below row 0 and row 0 either as the sample has it or full      *)

\* The width of the score in bits: i32 in the program; the loop runs the
\* same way for every width, a narrow one keeps the scores few
ScoreBits == 10

MaxScore == 2 ^ (ScoreBits - 1) - 1

\* Two's complement wrap of n to ScoreBits bits: what += leaves on overflow
\* in a build without overflow checks
wrapping_add(n) ==
    IF n > MaxScore THEN n - 2 ^ ScoreBits ELSE n

\* The board b with row 0 full
with_top_row(b) ==
    [b EXCEPT ![0] = [x \in 0 .. BoardWidth - 1 |-> ColorList[(x % 7) + 1]]]

InitClearLoop ==
    /\ \E r \in 2 .. BoardHeight - 1, p \in 1 .. ClearPatterns, top \in BOOLEAN :
          Starts([GameState_new("T", BagList[1]) EXCEPT
                    !.board = IF top THEN with_top_row(one_row_board(r, p))
                              ELSE one_row_board(r, p)])
    /\ last_fall = 0
    /\ last_input = 0
    /\ NoBagCall
    /\ clear_y = BoardHeight - 1
    /\ pc = "while"
    /\ steps = 0
    /\ \E checks \in BOOLEAN :
          last = [op |-> "clear_lines", overflow_checks |-> checks]

\* Row y is not full: the for loop over x finds a cell that is no block,
\* decreases y and continues the while loop
ScanRow ==
    /\ pc = "while"
    /\ clear_y >= 1
    /\ ~row_full(board, clear_y)
    /\ clear_y' = clear_y - 1
    /\ UNCHANGED <<board, player_pos, current_shape, rotation, score, held,
                   shape_queue, just_held, game_phase, timers, bagvars,
                   pc, steps, last>>

\* Row y is full: rows 1..y take the contents of the rows above them and
\* the score grows by 100; y stays. When the sum does not fit the score,
\* the addition panics in a build with overflow checks (the debug profile)
\* and wraps in one without (the release profile).
ShiftRows ==
    /\ pc = "while"
    /\ clear_y >= 1
    /\ row_full(board, clear_y)
    /\ board' = [row \in 0 .. BoardHeight - 1 |->
                    IF row >= 1 /\ row <= clear_y
                    THEN board[row - 1] ELSE board[row]]
    /\ IF score + LineScore <= MaxScore
       THEN score' = score + LineScore /\ pc' = pc
       ELSE IF last.overflow_checks
            THEN score' = score /\ pc' = "panicked"
            ELSE score' = wrapping_add(score + LineScore) /\ pc' = pc
    /\ UNCHANGED <<player_pos, current_shape, rotation, held, shape_queue,
                   just_held, game_phase, timers, locals, steps, last>>

\* y < 1: the while loop is left and clear_lines returns
ReturnClear ==
    /\ pc = "while"
    /\ clear_y < 1
    /\ pc' = "returned"
    /\ UNCHANGED <<core, timers, locals, steps, last>>

NextClearLoop == ScanRow \/ ShiftRows \/ ReturnClear

\* The program keeps running: a turn of the loop that can be taken is taken
SpecClearLoop ==
    InitClearLoop /\ [][NextClearLoop]_vars /\ WF_vars(NextClearLoop)

\* C18: every core operation returns after finitely many steps for every
\* state: clear_lines, and with it place_and_reset and hard_drop, returns
\* for every contents of the board.
C18_ClearLinesReturns == <>(pc = "returned")

----------------------------------------------------------------------------
(* get_next_shape called again and again on a new game: the shapes it     *)
(* returns are kept in the order of the calls                             *)

\* The number of calls followed
MaxNext == 16

InitQueue ==
    /\ \E shape \in Shapes, bag \in Bags : Starts(GameState_new(shape, bag))
    /\ last_fall = 0
    /\ last_input = 0
    /\ NoCall
    /\ pc = "call"
    /\ steps = 0
    /\ last = [op |-> "new", taken |-> <<>>]

CallGetNextShape ==
    /\ pc = "call"
    /\ steps < MaxNext
    /\ steps' = steps + 1
    /\ \E bag \in draws(GS) :
          shape_queue' = queue_after_next(shape_queue, bag)
    /\ last' = [op |-> "get_next_shape",
                taken |-> Append(last.taken, shape_queue[1])]
    /\ UNCHANGED <<board, player_pos, current_shape, rotation, score, held,
                   just_held, game_phase, timers, locals, pc>>

SpecQueue == InitQueue /\ [][CallGetNextShape]_vars

\* Whether the sequence q holds every one of the 7 shapes exactly once
is_bag(q) ==
    /\ Len(q) = BagSize
    /\ \A sh \in Shapes : \E i \in 1 .. Len(q) : q[i] = sh

\* Whether every block of 7 of q, counted from its start, is a bag; shapes
\* left over at the end belong to no block
blocks_are_bags(q) ==
    \A j \in 1 .. Len(q) \div BagSize :
        is_bag(SubSeq(q, BagSize * (j - 1) + 1, BagSize * j))

\* C24: in every reachable state the shapes get_next_shape has returned
\* since the start of the game, followed by the queue, are a sequence of
\* complete bags: the queue is a suffix of one bag followed by complete
\* bags, the returned shapes in blocks of 7 hold every shape exactly once,
\* and no shape occurs more than twice in the queue.
C24_QueueOfBags ==
    /\ Len(last.taken \o shape_queue) % BagSize = 0
    /\ blocks_are_bags(last.taken \o shape_queue)
    /\ blocks_are_bags(last.taken)
    /\ \A sh \in Shapes :
          Cardinality({i \in 1 .. Len(shape_queue) : shape_queue[i] = sh}) <= 2

\* get_next_shape has returned more than two bags, the queue holds the rest
\* of a bag in front of a complete one, and a shape occurs twice in it
C24_Witness ==
    /\ Len(last.taken) > 2 * BagSize
    /\ Len(shape_queue) = 12
    /\ \E i \in 1 .. 5 : \E j \in 6 .. 12 : shape_queue[i] = shape_queue[j]

----------------------------------------------------------------------------
(* The game loop while poll finds no event: update runs its gravity part   *)
(* and returns, main sleeps, and so on; last keeps what the last fall tick *)
(* did                                                                     *)

\* update when no event is waiting: the fall step and the lock
Tick ==
    /\ pc = "frame"
    /\ game_phase = "Playing"
    /\ \E bag \in draws(GS) :
          LET fall_due == elapsed(last_fall) >= fall_interval
              lock_due == elapsed(last_input) >= lock_interval
              locks == fall_due /\ ~fall_result(GS) /\ lock_due
          IN \E t \in {gravity(GS, fall_due, lock_due, bag)} :
             /\ Become(t)
             /\ last_fall' = IF fall_due THEN 0 ELSE last_fall
             /\ last' = IF ~fall_due THEN last
                        ELSE [Did(IF locks THEN "lock" ELSE "fall")
                                EXCEPT !.fell = fall_result(GS),
                                       !.lines = (t.score - score) \div LineScore,
                                       !.at = IF locks THEN player_pos ELSE Coord(0, 0),
                                       !.ok = playing_valid(GS)]
    /\ pc' = "events"
    /\ UNCHANGED <<last_input, locals, steps>>

\* main sleeps to the end of the frame: d clock units pass
Sleep ==
    /\ pc = "events"
    /\ pc' = "frame"
    /\ \E d \in 0 .. fall_interval :
          /\ last_fall' = later(last_fall, d)
          /\ last_input' = later(last_input, d)
    /\ UNCHANGED <<core, locals, steps, last>>

NextNoInput == Tick \/ Sleep

\* update is about to run on a game that is on
AtFrame == pc = "frame" /\ game_phase = "Playing"

\* The loop keeps running and the clock keeps advancing. Tick is enabled
\* exactly in the states of AtFrame and leaves them, so that weak fairness
\* of Tick says that the states outside AtFrame come again and again.
SpecNoInput ==
    /\ Init
    /\ [][NextNoInput]_vars
    /\ []<>~AtFrame
    /\ WF_vars(Sleep)
    /\ SF_vars(Sleep /\ timers' # timers)

\* What a fall tick does: the piece goes down one row when it can, and is
\* committed when it cannot and last_input lies a lock interval back
FallTick ==
    (UpdateStep /\ elapsed(last_fall) >= fall_interval) =>
        IF can_place(board, current_shape, rotation,
                     Coord(player_pos.x, player_pos.y + 1))
        THEN /\ player_pos' = Coord(player_pos.x, player_pos.y + 1)
             /\ UNCHANGED <<board, current_shape, rotation, shape_queue>>
        ELSE shape_queue' # shape_queue <=> elapsed(last_input) >= lock_interval

\* C27 as stated: with no player input while the game is on, the active
\* piece is eventually committed: it goes down one row per fall tick until a
\* fall step fails, and is locked at a later fall tick, so never at the
\* tick that follows one at which it went down.
C27_LockedAtLaterTick ==
    /\ AtFrame ~> last.op = "lock"
    /\ [][FallTick]_vars
    /\ [][(UpdateStep /\ last.op = "fall" /\ last.fell) =>
             shape_queue' = shape_queue]_vars

\* C27: with no player input while the game is on, the active piece is
\* eventually committed: it goes down one row per fall tick until a fall
\* step fails, and is locked by place_and_reset at the first fall tick at
\* which the fall step fails and the lock interval has elapsed since
\* last_input; that is the tick of the first failed fall step when the last
\* input lies at least one lock interval back.
C27_EventuallyCommitted ==
    /\ AtFrame ~> last.op = "lock"
    /\ [][FallTick]_vars

\* A piece left alone on the empty board has gone down by gravity to the
\* floor and has been locked there
C27_Witness ==
    /\ last.op = "lock"
    /\ last.ok
    /\ last.at.y >= BoardHeight - MaskSize
    /\ Cardinality({c \in (0 .. BoardWidth - 1) \X (0 .. BoardHeight - 1) :
                       is_block(board[c[2]][c[1]])}) = 4

----------------------------------------------------------------------------
(* create_new_7_bag followed draw by draw: each draw of Shape::random is    *)
(* one step, with every shape a possible outcome                           *)

\* The inner for loop of create_new_7_bag comparing the draw with the slots
\* checking only the slot filled last
in_new_queue_last(queue, at, new_shape) ==
    at > 0 /\ queue[at - 1] = new_shape

\* The inner for loop of create_new_7_bag: whether the drawn shape is in
\* some slot of the array (at is the index of the slot being filled)
in_new_queue(queue, at, new_shape) ==
    \E i \in 0 .. BagSize - 1 : queue[i] = new_shape

InitBag ==
    /\ Starts(GameState_new("T", BagList[1]))
    /\ last_fall = 0
    /\ last_input = 0
    /\ NoCall
    /\ pc = "draw"
    /\ steps = 0
    /\ last = [op |-> "call", taken |-> FALSE]

\* One turn of the loop 'new_shape: a shape is drawn, and either the loop is
\* continued or the shape is stored in slot bag_x and the loop left
Draw ==
    /\ pc = "draw"
    /\ bag_x < BagSize
    /\ \E new_shape \in Shapes :
          IF in_new_queue(new_queue, bag_x, new_shape)
          THEN /\ UNCHANGED bagvars
               /\ last' = [op |-> "draw", taken |-> FALSE]
          ELSE /\ new_queue' = [new_queue EXCEPT ![bag_x] = new_shape]
               /\ bag_x' = bag_x + 1
               /\ last' = [op |-> "draw", taken |-> TRUE]
    /\ UNCHANGED <<core, timers, clear_y, pc, steps>>

\* The for loop over the slots is over: the array is returned
ReturnBag ==
    /\ pc = "draw"
    /\ bag_x = BagSize
    /\ pc' = "returned"
    /\ last' = [op |-> "return", taken |-> FALSE]
    /\ UNCHANGED <<core, timers, locals, steps>>

NextBag == Draw \/ ReturnBag

SpecBag == InitBag /\ [][NextBag]_vars

\* C13: whatever shapes are drawn, the bag create_new_7_bag returns holds 7
\* values that are a permutation of the 7 shapes: a drawn shape is stored
\* only if no slot holds it yet, and the bag is returned only when all 7
\* slots are filled.
C13_BagIsPermutation ==
    /\ [](pc = "returned" =>
            /\ \A i \in 0 .. 6 : new_queue[i] \in {"I", "J", "L", "O", "S", "Z", "T"}
            /\ \A i, j \in 0 .. 6 : new_queue[i] = new_queue[j] => i = j)
    /\ [][new_queue' # new_queue =>
            \E i \in 0 .. 6 :
               /\ new_queue[i] = NoShape
               /\ new_queue'[i] # NoShape
               /\ \A j \in 0 .. 6 : new_queue[j] # new_queue'[i]
               /\ \A j \in 0 .. 6 : j # i => new_queue'[j] = new_queue[j]]_vars
    /\ [][pc' = "returned" => \A i \in 0 .. 6 : new_queue[i] # NoShape]_vars

\* The bag S..I has been returned: S was drawn first and I last
C13_Witness ==
    /\ pc = "returned"
    /\ new_queue[0] = "S"
    /\ new_queue[6] = "I"

----------------------------------------------------------------------------
(* get_kick_data called directly, for the shape of a new game and every    *)
(* pair of rotations                                                       *)

\* The 8 pairs the match arms of the tables name: a quarter turn either way
quarter_turn(from, to) == to = rotate_cw(from) \/ to = rotate_ccw(from)

\* The pairs for which the match of a table reaches the unreachable!() arm;
\* O has one array for every pair
get_kick_data_panics(shape, from, to) == shape # "O" /\ ~quarter_turn(from, to)

InitKicks ==
    /\ \E shape \in Shapes, bag \in Bags : Starts(GameState_new(shape, bag))
    /\ last_fall = 0
    /\ last_input = 0
    /\ NoCall
    /\ pc = "call"
    /\ steps = 0
    /\ last = [op |-> "new", from |-> "R0", to |-> "R0", panicked |-> FALSE,
               ret |-> <<>>]

CallGetKickData ==
    /\ pc = "call"
    /\ \E from \in Rotations, to \in Rotations :
          IF get_kick_data_panics(current_shape, from, to)
          THEN /\ last' = [op |-> "get_kick_data", from |-> from, to |-> to,
                           panicked |-> TRUE, ret |-> <<>>]
               /\ pc' = "aborted"
          ELSE /\ last' = [op |-> "get_kick_data", from |-> from, to |-> to,
                           panicked |-> FALSE,
                           ret |-> get_kick_data(current_shape, from, to)]
               /\ pc' = "done"
    /\ UNCHANGED <<core, timers, locals, steps>>

SpecKicks == InitKicks /\ [][CallGetKickData]_vars

\* The offset that undoes the offset k
negated(k) == <<0 - k[1], 0 - k[2]>>

\* C28: for every shape and each of the 8 quarter turns (from, to), the
\* array get_kick_data returns starts with (0,0), and for i = 1..5 the i-th
\* offset of the array for the turn back (to, from) is the negation of its
\* i-th offset.
C28_KicksAntisymmetric ==
    (last.op = "get_kick_data" /\ quarter_turn(last.from, last.to)) =>
        /\ ~last.panicked
        /\ last.ret[1] = <<0, 0>>
        /\ \A i \in 1 .. 5 :
              get_kick_data(current_shape, last.to, last.from)[i] = negated(last.ret[i])

====
